---- MODULE Spec2Model ----
(***************************************************************************)
(* dynamodb_autoincrement: an auto-incrementing counter on DynamoDB.       *)
(*                                                                         *)
(* put() loops over  next() (one get_item, then a pure plan of conditional *)
(* puts)  and a commit (one transact_write_items, or, with dangerously,    *)
(* one put_item per planned put).  Several callers run put() against the   *)
(* same tables; they interleave at the store requests.                     *)
(***************************************************************************)
EXTENDS Integers, Sequences, FiniteSets, TLC

\* Number of concurrent callers of put(); each calls put() once.
NumProcs == 3

Procs == 1..NumProcs

(***************************************************************************)
(* Values.  Items are functions from attribute names to DynamoDB attribute *)
(* values, which carry their type: [N |-> 3], [S |-> "a"], [NULL |-> TRUE].*)
(* A missing item (get_item's response without "Item", Python's None for a *)
(* dict) is None; Python's None for an attribute value is NULL.            *)
(***************************************************************************)
None == [None |-> TRUE]
NULL == [NULL |-> TRUE]
N(n) == [N |-> n]
S(s) == [S |-> s]

\* {**a, **b}: the fields of b override those of a.
Merge(a, b) ==
  [x \in (DOMAIN a) \cup (DOMAIN b) |-> IF x \in DOMAIN b THEN b[x] ELSE a[x]]

\* dict.get(name) on an item that may be None; a NULL attribute reads as None.
Attr(it, name) ==
  IF it # None /\ name \in DOMAIN it THEN it[name] ELSE NULL

VARIABLES
  variant,        \* "plain": DynamoDBAutoIncrement, "history": DynamoDBHistoryAutoIncrement
  dangerously,    \* the dataclass field of that name
  initial_value,  \* the dataclass field of that name
  initial_item,   \* the counter-table record that existed before the first put, or None
  tables,         \* the store: table name -> set of items, one per primary key
  pc,             \* per caller: "idle", "next", "commit", "done", "failed"
  item,           \* per caller: the argument of put()
  puts,           \* per caller: the puts planned by the last next()
  next_counter,   \* per caller: the counter planned by the last next()
  sent,           \* per caller: how many of puts the dangerous loop has issued
  raised,         \* per caller: the exception put() raised, "" if none
  reply,          \* what the last list() or get() returned
  attempts        \* per caller: its transact_write_items requests, where counted

vars == <<variant, dangerously, initial_value, initial_item, tables,
          pc, item, puts, next_counter, sent, raised, reply, attempts>>

config == <<variant, dangerously, initial_value, initial_item>>

(***************************************************************************)
(* Construction, as the fixtures of the test module construct it.          *)
(***************************************************************************)
counter_table_name == IF variant = "plain" THEN "autoincrement" ELSE "widgets"

counter_table_key ==
  IF variant = "plain" THEN [tableName |-> S("widgets")] ELSE [widgetID |-> N(1)]

table_name == IF variant = "plain" THEN "widgets" ELSE "widgetHistory"

attribute_name == IF variant = "plain" THEN "widgetID" ELSE "version"

\* The payload field of the candidates the tests put.
payload_name == IF variant = "plain" THEN "widgetName" ELSE "name"

TableNames == {"autoincrement", "widgets", "widgetHistory"}

\* create_tables: the key attributes of each table, with their types.
KeySchema(TableName) ==
  CASE TableName = "autoincrement" -> [tableName |-> "S"]
    [] TableName = "widgets"       -> [widgetID |-> "N"]
    [] TableName = "widgetHistory" -> [widgetID |-> "N", version |-> "N"]

InitialValues == {1, 2}

\* The value of the tracked attribute a candidate may itself carry.
tracked_attribute_value == 42

\* Candidates of put(): a payload alone, or with a field named like the counter.
Candidates ==
  { (payload_name :> S("a")),
    Merge((payload_name :> S("b")), (attribute_name :> N(tracked_attribute_value))) }

\* test_autoincrement_safely's last_id, and the initial_item fixture.
InitialItems(v) ==
  IF v = "plain"
    THEN {None, [tableName |-> S("widgets"), widgetID |-> N(3)]}
    ELSE {None, [widgetID |-> N(1)], [widgetID |-> N(1), version |-> N(1)]}

(***************************************************************************)
(* The store.                                                              *)
(***************************************************************************)
\* The primary key of an item of a table: its key attributes.
KeyOf(it, TableName) ==
  [a \in (DOMAIN KeySchema(TableName)) \cap (DOMAIN it) |-> it[a]]

\* Table.get_item(Key=...).get("Item")
GetItem(TableName, Key) ==
  LET found == {i \in tables[TableName] : KeyOf(i, TableName) = Key}
  IN  IF found = {} THEN None ELSE CHOOSE i \in found : TRUE

\* Table.query(KeyConditionExpression: every attribute of Key equals)["Items"]
Query(TableName, Key) ==
  {i \in tables[TableName] :
     \A a \in DOMAIN Key : a \in DOMAIN i /\ i[a] = Key[a]}

\* Mutant of ConditionHolds: the puts are written without their conditions.
ConditionHolds_always(put) == TRUE

\* The ConditionExpression of a planned put, against the item it would replace.
ConditionHolds(put) ==
  LET old == GetItem(put.TableName, KeyOf(put.Item, put.TableName))
      name == put.ExpressionAttributeNames
  IN  IF put.ConditionExpression = "attribute_not_exists(#counter)"
        THEN old = None \/ name \notin DOMAIN old
        ELSE /\ old # None
             /\ name \in DOMAIN old
             /\ old[name] = put.ExpressionAttributeValues

\* The table contents after a put: the item replaces the one with its key.
StorePut(tbls, put) ==
  [tbls EXCEPT ![put.TableName] =
     {i \in @ : KeyOf(i, put.TableName) # KeyOf(put.Item, put.TableName)}
       \cup {put.Item}]

\* Mutant of StorePutAll: the transaction is not atomic, it stores its first
\* put and drops the others.
StorePutAll_first(tbls, ps) ==
  IF ps = <<>> THEN tbls ELSE StorePut(tbls, Head(ps))

RECURSIVE StorePutAll(_, _)
StorePutAll(tbls, ps) ==
  IF ps = <<>> THEN tbls ELSE StorePutAll(StorePut(tbls, Head(ps)), Tail(ps))

(***************************************************************************)
(* The planners.                                                           *)
(***************************************************************************)
\* put_kwargs of either planner.
PutKwargs(counter) ==
  IF counter = NULL
    THEN [ConditionExpression |-> "attribute_not_exists(#counter)",
          ExpressionAttributeValues |-> NULL]
    ELSE [ConditionExpression |-> "#counter = :counter",
          ExpressionAttributeValues |-> counter]

\* DynamoDBAutoIncrement.next
AutoIncrement_next(it) ==
  LET counter == Attr(GetItem(counter_table_name, counter_table_key), attribute_name)
      nc == IF counter = NULL THEN initial_value ELSE counter.N + 1
      put_kwargs == PutKwargs(counter)
  IN  [puts |->
         << [ConditionExpression |-> put_kwargs.ConditionExpression,
             ExpressionAttributeValues |-> put_kwargs.ExpressionAttributeValues,
             ExpressionAttributeNames |-> attribute_name,
             Item |-> Merge(counter_table_key, (attribute_name :> N(nc))),
             TableName |-> counter_table_name],
            [ConditionExpression |-> "attribute_not_exists(#counter)",
             ExpressionAttributeValues |-> NULL,
             ExpressionAttributeNames |-> attribute_name,
             Item |-> Merge((attribute_name :> N(nc)), it),
             TableName |-> table_name] >>,
       next_counter |-> nc]

\* The planned puts of the history planner: the new tip, then the archive of
\* the tip that was read, if there was one.
HistoryPuts(it, existing_item, put_kwargs, archived, nc) ==
  << [ConditionExpression |-> put_kwargs.ConditionExpression,
      ExpressionAttributeValues |-> put_kwargs.ExpressionAttributeValues,
      ExpressionAttributeNames |-> attribute_name,
      Item |-> Merge(Merge(it, counter_table_key), (attribute_name :> N(nc))),
      TableName |-> counter_table_name] >>
  \o (IF existing_item # None
        THEN << [ConditionExpression |-> "attribute_not_exists(#counter)",
                 ExpressionAttributeValues |-> NULL,
                 ExpressionAttributeNames |-> attribute_name,
                 Item |-> archived,
                 TableName |-> table_name] >>
        ELSE << >>)

\* Mutant of HistoryAutoIncrement_next: a tip without the counter attribute
\* is given initial_value, and so is the new tip (next_counter += 1 forgotten).
HistoryAutoIncrement_next_nobump(it) ==
  LET existing_item == GetItem(counter_table_name, counter_table_key)
      counter == Attr(existing_item, attribute_name)
      nc0 == IF counter = NULL THEN initial_value ELSE counter.N + 1
      legacy == existing_item # None /\ counter = NULL
      archived == IF legacy
                    THEN Merge(existing_item, (attribute_name :> N(nc0)))
                    ELSE existing_item
  IN  [puts |-> HistoryPuts(it, existing_item, PutKwargs(counter), archived, nc0),
       next_counter |-> nc0]

\* Mutant of HistoryAutoIncrement_next: the archive put stores the new tip
\* instead of the tip that was read.
HistoryAutoIncrement_next_archivenew(it) ==
  LET existing_item == GetItem(counter_table_name, counter_table_key)
      counter == Attr(existing_item, attribute_name)
      nc0 == IF counter = NULL THEN initial_value ELSE counter.N + 1
      legacy == existing_item # None /\ counter = NULL
      nc == IF legacy THEN nc0 + 1 ELSE nc0
      archived == Merge(Merge(it, counter_table_key), (attribute_name :> N(nc)))
  IN  [puts |-> HistoryPuts(it, existing_item, PutKwargs(counter), archived, nc),
       next_counter |-> nc]

\* Mutant of HistoryAutoIncrement_next: next_counter is incremented before
\* the tip without the counter attribute is given its version.
HistoryAutoIncrement_next_stamplate(it) ==
  LET existing_item == GetItem(counter_table_name, counter_table_key)
      counter == Attr(existing_item, attribute_name)
      nc0 == IF counter = NULL THEN initial_value ELSE counter.N + 1
      legacy == existing_item # None /\ counter = NULL
      nc == IF legacy THEN nc0 + 1 ELSE nc0
      archived == IF legacy
                    THEN Merge(existing_item, (attribute_name :> N(nc)))
                    ELSE existing_item
  IN  [puts |-> HistoryPuts(it, existing_item, PutKwargs(counter), archived, nc),
       next_counter |-> nc]

\* Mutant of HistoryAutoIncrement_next: every tip that is read is archived
\* under initial_value, whatever version it carries.
HistoryAutoIncrement_next_archivefirst(it) ==
  LET existing_item == GetItem(counter_table_name, counter_table_key)
      counter == Attr(existing_item, attribute_name)
      nc0 == IF counter = NULL THEN initial_value ELSE counter.N + 1
      legacy == existing_item # None /\ counter = NULL
      nc == IF legacy THEN nc0 + 1 ELSE nc0
      archived == IF existing_item = None THEN None
                  ELSE Merge(existing_item, (attribute_name :> N(initial_value)))
  IN  [puts |-> HistoryPuts(it, existing_item, PutKwargs(counter), archived, nc),
       next_counter |-> nc]

\* DynamoDBHistoryAutoIncrement.next
HistoryAutoIncrement_next(it) ==
  LET existing_item == GetItem(counter_table_name, counter_table_key)
      counter == Attr(existing_item, attribute_name)
      nc0 == IF counter = NULL THEN initial_value ELSE counter.N + 1
      put_kwargs == PutKwargs(counter)
      legacy == existing_item # None /\ counter = NULL
      archived == IF legacy
                    THEN Merge(existing_item, (attribute_name :> N(nc0)))
                    ELSE existing_item
      nc == IF legacy THEN nc0 + 1 ELSE nc0
  IN  [puts |-> HistoryPuts(it, existing_item, put_kwargs, archived, nc),
       next_counter |-> nc]

\* self.next(item) of the class that was constructed.
next(it) ==
  IF variant = "plain" THEN AutoIncrement_next(it) ELSE HistoryAutoIncrement_next(it)

(***************************************************************************)
(* Initial state: the tables as the fixtures leave them, nobody in put().  *)
(***************************************************************************)
Init ==
  /\ variant \in {"plain", "history"}
  /\ dangerously \in BOOLEAN
  /\ initial_value \in InitialValues
  /\ initial_item \in InitialItems(variant)
  /\ tables = [t \in TableNames |->
                 IF t = counter_table_name /\ initial_item # None
                   THEN {initial_item} ELSE {}]
  /\ pc = [p \in Procs |-> "idle"]
  /\ item = [p \in Procs |-> None]
  /\ puts = [p \in Procs |-> << >>]
  /\ next_counter = [p \in Procs |-> 0]
  /\ sent = [p \in Procs |-> 0]
  /\ raised = [p \in Procs |-> ""]
  /\ reply = None
  /\ attempts = [p \in Procs |-> 0]

(***************************************************************************)
(* put(), one action per store request.                                    *)
(***************************************************************************)
\* A caller enters put(item) and reaches the top of the loop.
Call(p) ==
  /\ pc[p] = "idle"
  /\ \E it \in Candidates : item' = [item EXCEPT ![p] = it]
  /\ pc' = [pc EXCEPT ![p] = "next"]
  /\ UNCHANGED <<config, tables, puts, next_counter, sent, raised, reply>>

\* puts, next_counter = self.next(item)
CallNext(p) ==
  /\ pc[p] = "next"
  /\ puts' = [puts EXCEPT ![p] = next(item[p]).puts]
  /\ next_counter' = [next_counter EXCEPT ![p] = next(item[p]).next_counter]
  /\ sent' = [sent EXCEPT ![p] = 0]
  /\ pc' = [pc EXCEPT ![p] = "commit"]
  /\ UNCHANGED <<config, tables, item, raised, reply>>

Raise(p, exception) ==
  /\ pc' = [pc EXCEPT ![p] = "failed"]
  /\ raised' = [raised EXCEPT ![p] = exception]

\* Mutant of TransactWrite: a cancelled transaction is swallowed and put()
\* returns the value it planned.
TransactWrite_swallow(p) ==
  /\ pc[p] = "commit"
  /\ ~dangerously
  /\ IF \A i \in 1..Len(puts[p]) : ConditionHolds(puts[p][i])
       THEN tables' = StorePutAll(tables, puts[p])
       ELSE UNCHANGED tables
  /\ pc' = [pc EXCEPT ![p] = "done"]
  /\ UNCHANGED <<config, item, puts, next_counter, sent, raised, reply>>

\* Mutant of TransactWrite: the cancellation is not caught and reaches the
\* caller of put().
TransactWrite_surface(p) ==
  /\ pc[p] = "commit"
  /\ ~dangerously
  /\ IF \A i \in 1..Len(puts[p]) : ConditionHolds(puts[p][i])
       THEN /\ tables' = StorePutAll(tables, puts[p])
            /\ pc' = [pc EXCEPT ![p] = "done"]
            /\ UNCHANGED raised
       ELSE /\ pc' = [pc EXCEPT ![p] = "failed"]
            /\ raised' = [raised EXCEPT ![p] = "TransactionCanceledException"]
            /\ UNCHANGED tables
  /\ UNCHANGED <<config, item, puts, next_counter, sent, reply>>

\* transact_write_items answered by the store on the merits of the request:
\* committed whole, or cancelled for a failed condition (the except clause
\* then continues the loop).
TransactWrite(p) ==
  /\ pc[p] = "commit"
  /\ ~dangerously
  /\ IF \A i \in 1..Len(puts[p]) : ConditionHolds(puts[p][i])
       THEN /\ tables' = StorePutAll(tables, puts[p])
            /\ pc' = [pc EXCEPT ![p] = "done"]
       ELSE /\ pc' = [pc EXCEPT ![p] = "next"]
            /\ UNCHANGED tables
  /\ UNCHANGED raised
  /\ UNCHANGED <<config, item, puts, next_counter, sent, reply>>

\* transact_write_items raising TransactionCanceledException for a reason
\* other than a failed condition (TransactionConflict, ThrottlingError, ...).
TransactWriteCanceled(p) ==
  /\ pc[p] = "commit"
  /\ ~dangerously
  /\ pc' = [pc EXCEPT ![p] = "next"]
  /\ UNCHANGED <<config, tables, item, puts, next_counter, sent, raised, reply>>

\* Mutant of TransactWriteError: the puts are not atomic, the first is stored
\* before the error is raised.
TransactWriteError_partial(p) ==
  /\ pc[p] = "commit"
  /\ ~dangerously
  /\ tables' = StorePut(tables, puts[p][1])
  /\ pc' = [pc EXCEPT ![p] = "failed"]
  /\ raised' = [raised EXCEPT ![p] = "ClientError"]
  /\ UNCHANGED <<config, item, puts, next_counter, sent, reply>>

\* transact_write_items raising any other ClientError.
TransactWriteError(p) ==
  /\ pc[p] = "commit"
  /\ ~dangerously
  /\ Raise(p, "ClientError")
  /\ UNCHANGED <<config, tables, item, puts, next_counter, sent, reply>>

\* Mutant of PutItem: put_item is called with Item and TableName alone, the
\* planned condition is dropped.
PutItem_unconditioned(p) ==
  /\ pc[p] = "commit"
  /\ dangerously
  /\ tables' = StorePut(tables, puts[p][sent[p] + 1])
  /\ sent' = [sent EXCEPT ![p] = @ + 1]
  /\ pc' = [pc EXCEPT ![p] =
              IF sent[p] + 1 = Len(puts[p]) THEN "done" ELSE "commit"]
  /\ UNCHANGED <<config, item, puts, next_counter, raised, reply>>

\* Mutant of PutItem: a rejected put_item is treated like a cancelled
\* transaction, the loop is continued.
PutItem_retry(p) ==
  /\ pc[p] = "commit"
  /\ dangerously
  /\ LET put == puts[p][sent[p] + 1]
     IN  IF ConditionHolds(put)
           THEN /\ tables' = StorePut(tables, put)
                /\ sent' = [sent EXCEPT ![p] = @ + 1]
                /\ pc' = [pc EXCEPT ![p] =
                            IF sent[p] + 1 = Len(puts[p]) THEN "done" ELSE "commit"]
           ELSE /\ pc' = [pc EXCEPT ![p] = "next"]
                /\ UNCHANGED <<tables, sent>>
  /\ UNCHANGED <<config, item, puts, next_counter, raised, reply>>

\* for put in puts: self._put_item(**put), one request of the loop.
PutItem(p) ==
  /\ pc[p] = "commit"
  /\ dangerously
  /\ LET put == puts[p][sent[p] + 1]
     IN  IF ConditionHolds(put)
           THEN /\ tables' = StorePut(tables, put)
                /\ sent' = [sent EXCEPT ![p] = @ + 1]
                /\ pc' = [pc EXCEPT ![p] =
                            IF sent[p] + 1 = Len(puts[p]) THEN "done" ELSE "commit"]
                /\ UNCHANGED raised
           ELSE /\ Raise(p, "ConditionalCheckFailedException")
                /\ UNCHANGED <<tables, sent>>
  /\ UNCHANGED <<config, item, puts, next_counter, reply>>

\* put_item raising any other ClientError.
PutItemError(p) ==
  /\ pc[p] = "commit"
  /\ dangerously
  /\ Raise(p, "ClientError")
  /\ UNCHANGED <<config, tables, item, puts, next_counter, sent, reply>>

\* One step of the caller p inside put(); the requests are not counted.
PutStep(p) ==
  \/ Call(p) /\ UNCHANGED attempts
  \/ CallNext(p) /\ UNCHANGED attempts
  \/ TransactWrite(p) /\ UNCHANGED attempts
  \/ TransactWriteCanceled(p) /\ UNCHANGED attempts
  \/ TransactWriteError(p) /\ UNCHANGED attempts
  \/ PutItem(p) /\ UNCHANGED attempts
  \/ PutItemError(p) /\ UNCHANGED attempts

Next == \E p \in Procs : PutStep(p)

Spec == Init /\ [][Next]_vars

(***************************************************************************)
(* The read operations of DynamoDBHistoryAutoIncrement.                    *)
(***************************************************************************)
\* sorted(item[self.attribute_name] for item in items): ascending, one entry
\* per item.
RECURSIVE sorted(_)
sorted(items) ==
  IF items = {} THEN << >>
  ELSE LET least == CHOOSE i \in items :
                      \A j \in items : i[attribute_name].N <= j[attribute_name].N
       IN  <<least[attribute_name].N>> \o sorted(items \ {least})

\* DynamoDBHistoryAutoIncrement.list
list == sorted(Query(table_name, counter_table_key))

\* Mutant of get: the two tables are taken for one another.
get_swapped(version) ==
  IF version = NULL
    THEN GetItem(table_name, counter_table_key)
    ELSE GetItem(counter_table_name,
                 Merge(counter_table_key, (attribute_name :> version)))

\* DynamoDBHistoryAutoIncrement.get; version is NULL (Python's None) or N(k).
get(version) ==
  IF version = NULL
    THEN GetItem(counter_table_name, counter_table_key)
    ELSE GetItem(table_name, Merge(counter_table_key, (attribute_name :> version)))

\* Number of callers of put() that run beside the readers.
NumWriters == 2

\* The versions a reader asks get() for: those that the callers beside it can
\* reach from initial_value 1, and one more.
Versions == 1..(NumWriters + 2)

\* A reader calls list().
List ==
  /\ variant = "history"
  /\ reply' = [list |-> list]
  /\ UNCHANGED <<config, tables, pc, item, puts, next_counter, sent, raised, attempts>>

\* A reader calls get() or get(version).
Get ==
  /\ variant = "history"
  /\ \E version \in {NULL} \cup {N(k) : k \in Versions} :
       reply' = [get |-> get(version), version |-> version]
  /\ UNCHANGED <<config, tables, pc, item, puts, next_counter, sent, raised, attempts>>

\* The history counter as the fixture constructs it (initial_value 1), with
\* readers beside the callers of put().
InitRead == Init /\ variant = "history" /\ initial_value = 1

NextRead == (\E p \in 1..NumWriters : PutStep(p)) \/ List \/ Get

SpecRead == InitRead /\ [][NextRead]_vars

(***************************************************************************)
(* Strictly sequential use of a fresh plain counter, as in                 *)
(* test_autoincrement_dangerously_handles_many_serial_puts: each put is    *)
(* awaited before the next is called, an exception ends the sequence, and  *)
(* the store answers every request on its merits.                          *)
(***************************************************************************)
SerialCall(p) ==
  /\ \A q \in Procs : q < p => pc[q] = "done"
  /\ Call(p)
  /\ UNCHANGED attempts

InitSerial == Init /\ variant = "plain" /\ initial_item = None

NextSerial ==
  \E p \in Procs :
    \/ SerialCall(p)
    \/ CallNext(p) /\ UNCHANGED attempts
    \/ TransactWrite(p) /\ UNCHANGED attempts
    \/ PutItem(p) /\ UNCHANGED attempts

SpecSerial == InitSerial /\ [][NextSerial]_vars

(***************************************************************************)
(* Concurrent puts in safe mode on a fresh counter, the store answering    *)
(* every request on its merits, every caller scheduled again and again.    *)
(* The transact_write_items requests of each caller are counted, up to     *)
(* MaxAttempts.                                                            *)
(***************************************************************************)
MaxAttempts == NumProcs + 1

\* One pass through lines 56-60, counted.
Attempt(p) ==
  /\ TransactWrite(p)
  /\ attempts' = [attempts EXCEPT ![p] = IF @ < MaxAttempts THEN @ + 1 ELSE @]

\* One step of the caller p, requests counted.
SafeStep(p) ==
  \/ Call(p) /\ UNCHANGED attempts
  \/ CallNext(p) /\ UNCHANGED attempts
  \/ Attempt(p)

InitConcurrent == Init /\ ~dangerously /\ initial_item = None

NextConcurrent == \E p \in Procs : SafeStep(p)

SpecConcurrent ==
  /\ InitConcurrent
  /\ [][NextConcurrent]_vars
  /\ \A p \in Procs : WF_vars(SafeStep(p))

(***************************************************************************)
(* What the properties below speak of.                                     *)
(***************************************************************************)
\* The callers whose put() has returned, and the values returned.
Done == {p \in Procs : pc[p] = "done"}

Returned == {next_counter[p] : p \in Done}

\* The callers that have entered put().
Called == {p \in Procs : pc[p] # "idle"}

\* The record at the counter key, and its counter attribute (NULL if none).
CounterRecord ==
  IF tables[counter_table_name] = {} THEN None
  ELSE CHOOSE i \in tables[counter_table_name] : TRUE

CounterValue == Attr(CounterRecord, attribute_name)

PlainSafe == variant = "plain" /\ ~dangerously

HistorySafe == variant = "history" /\ ~dangerously

\* The first value a put() returns, given what the fixture left.
FirstValue ==
  IF Attr(initial_item, attribute_name) # NULL
    THEN Attr(initial_item, attribute_name).N + 1
    ELSE IF initial_item # None THEN initial_value + 1 ELSE initial_value

(***************************************************************************)
(* C1.  Safe mode, plain counter, fresh counter: the values returned by    *)
(* the puts that have succeeded are exactly initial_value, ...,            *)
(* initial_value + k - 1 for k successful puts, whatever the interleaving: *)
(* none twice, none skipped.                                               *)
(***************************************************************************)
C1_NoDuplicatesNoGaps ==
  (PlainSafe /\ initial_item = None) =>
     Returned = initial_value .. (initial_value + Cardinality(Done) - 1)

C1_Witness ==
  /\ PlainSafe /\ initial_item = None
  /\ Done = Procs
  /\ Returned = initial_value .. (initial_value + NumProcs - 1)

(***************************************************************************)
(* C2.  Safe mode, plain counter: a put whose plan rests on a counter      *)
(* value that another put has since replaced has its transaction           *)
(* cancelled; the cancellation changes no record and raises nothing, the   *)
(* put goes back to the read step and plans from the value it then reads.  *)
(* No put ever raises TransactionCanceledException, and when two puts have *)
(* been called and both have returned, they returned c + 1 and c + 2 (c    *)
(* the counter before them): the loser never returns c + 1 again.          *)
(***************************************************************************)
\* The counter value a caller's plan was made from, as the plan records it.
PlannedFrom(p) == puts[p][1].ExpressionAttributeValues

\* The caller is about to commit a plan made from a counter that is gone.
Stale(p) == pc[p] = "commit" /\ PlannedFrom(p) # CounterValue

C2_ConflictStep ==
  PlainSafe =>
    \A p \in Procs :
      /\ (Stale(p) /\ TransactWrite(p)) =>
            /\ pc'[p] = "next"
            /\ UNCHANGED <<tables, raised>>
      /\ (pc[p] = "next" /\ CallNext(p)) =>
            /\ PlannedFrom(p)' = CounterValue
            /\ next_counter'[p] =
                 IF CounterValue = NULL THEN initial_value ELSE CounterValue.N + 1

C3_Holds(p, candidates) ==
  (PlainSafe /\ Called = {p} /\ pc[p] = "done" /\ item[p] \in candidates) =>
     /\ next_counter[p] = FirstValue
     /\ tables[counter_table_name] =
          {Merge(counter_table_key, (attribute_name :> N(next_counter[p])))}
     /\ tables[table_name] =
          {Merge(item[p], (attribute_name :> N(next_counter[p])))}

\* C3: a single put returns the first value and leaves the counter record and
\* one target record, the candidate merged with the returned value.
C3_SinglePut == \A p \in Procs : C3_Holds(p, Candidates)

\* The same for the candidates that carry no field named like the counter.
C3_SinglePutWithoutCounterField ==
  \A p \in Procs :
    C3_Holds(p, {c \in Candidates : attribute_name \notin DOMAIN c})

(***************************************************************************)
(* C4.  Safe mode, history counter, initial_value 1: the versions returned *)
(* by the k puts that have succeeded are exactly 1 + h, ..., k + h, where  *)
(* h = 0 when there was no tip and h = 1 when there was one (with or       *)
(* without the version attribute), whatever the interleaving and whether   *)
(* or not the candidates carry a field named like the version attribute.   *)
(***************************************************************************)
C4_HistoryVersions ==
  (HistorySafe /\ initial_value = 1) =>
     LET h == IF initial_item = None THEN 0 ELSE 1
     IN  Returned = (1 + h) .. (Cardinality(Done) + h)

\* Every caller has returned, from a tip that predates versioning; some
\* candidates carried a version field and some did not.
C4_Witness ==
  /\ HistorySafe /\ initial_value = 1
  /\ initial_item = [widgetID |-> N(1)]
  /\ Done = Procs
  /\ Returned = 2 .. (NumProcs + 1)
  /\ \E p, q \in Procs :
       attribute_name \in DOMAIN item[p] /\ attribute_name \notin DOMAIN item[q]

(***************************************************************************)
(* C5.  Safe mode: put goes back to the read step only when a condition of *)
(* the batch failed; when the commit attempt fails for any other reason,   *)
(* a cancellation that no failed condition caused included, put makes no   *)
(* further attempt and the failure reaches the caller.                     *)
(***************************************************************************)
AllConditionsHold(p) == \A i \in 1..Len(puts[p]) : ConditionHolds(puts[p][i])

C5_RetryStep ==
  ~dangerously =>
    \A p \in Procs :
      (pc[p] = "commit" /\ pc'[p] # "commit") =>
         /\ pc'[p] = "next" => ~AllConditionsHold(p)
         /\ (AllConditionsHold(p) /\ pc'[p] # "done") =>
               pc'[p] = "failed" /\ raised'[p] # ""

\* C5: in safe mode every return to the read step follows a failed condition,
\* and every other failed commit attempt ends put() with the error raised.
C5_RetryOnlyOnConflict == [][C5_RetryStep]_vars

(***************************************************************************)
(* C6.  Safe mode, both variants: a put that ends in failure leaves no     *)
(* trace.  The only step of a put that changes a table is the one in which *)
(* that put succeeds, and a put that has ended takes no further step: so   *)
(* every step of a put that fails leaves the counter or tip record, the    *)
(* target table and the history table as they were, and the other puts     *)
(* find the store as if it had never been called.                          *)
(***************************************************************************)
C6_Step ==
  ~dangerously =>
    /\ tables' # tables =>
         \E p \in Procs :
           /\ pc[p] = "commit" /\ pc'[p] = "done"
           /\ \A q \in Procs \ {p} : pc'[q] = pc[q]
    /\ \A p \in Procs :
         /\ (pc[p] # "failed" /\ pc'[p] = "failed") => tables' = tables
         /\ pc[p] \in {"done", "failed"} => pc'[p] = pc[p]

\* C6: in safe mode no step of a put that fails changes a table.
C6_FailedPutLeavesNoTrace == [][C6_Step]_vars

\* One put has failed while another one has committed.
C6_Witness ==
  /\ ~dangerously
  /\ \E p, q \in Procs :
       /\ pc[p] = "failed" /\ raised[p] = "ClientError"
       /\ pc[q] = "done"
       /\ tables[counter_table_name] # {}

(***************************************************************************)
(* C7.  Both variants, both modes: once the counter record carries the     *)
(* counter attribute, no step removes the attribute or makes it smaller.   *)
(***************************************************************************)
C7_Step ==
  CounterValue # NULL =>
    /\ CounterValue' # NULL
    /\ CounterValue'.N >= CounterValue.N

\* C7: no step removes or decreases the counter attribute once written.
C7_CounterNeverDecreases == [][C7_Step]_vars

\* The counter has advanced past the first value written, puts have failed.
C7_Witness ==
  /\ CounterValue # NULL
  /\ CounterValue.N = FirstValue + 1
  /\ \E p \in Procs : pc[p] = "failed"

(***************************************************************************)
(* C8.  History counter: list() is strictly ascending, without duplicates, *)
(* and equal to the sorted set of all versions committed by put.           *)
(*                                                                         *)
(* As stated this fails: the version of the current tip is committed and   *)
(* not listed.  What holds: list() is strictly ascending and holds only    *)
(* versions below the tip's; in safe mode it is the sorted set of the      *)
(* versions of the superseded tips, that is the versions committed by put  *)
(* and the version of the tip that existed beforehand (initial_value for a *)
(* tip without the attribute), except the version of the current tip.      *)
(***************************************************************************)
Elems(seq) == {seq[i] : i \in 1..Len(seq)}

StrictlyAscending(seq) == \A i, j \in 1..Len(seq) : i < j => seq[i] < seq[j]

\* The version of the tip the fixture left, as the planner will archive it.
PriorVersions ==
  IF initial_item = None THEN {}
  ELSE IF Attr(initial_item, attribute_name) = NULL THEN {initial_value}
  ELSE {Attr(initial_item, attribute_name).N}

\* The version of the current tip, as the planner will archive it.
TipVersions ==
  IF CounterRecord = None THEN {}
  ELSE IF CounterValue = NULL THEN {initial_value}
  ELSE {CounterValue.N}

\* C8 as stated: list() is the ascending sequence of the versions returned.
C8_ListIsAllCommitted ==
  variant = "history" =>
     StrictlyAscending(list) /\ Elems(list) = Returned

\* C8 as amended: list() is ascending, below the tip, and in safe mode the
\* versions of the superseded tips.
C8_ListIsSuperseded ==
  variant = "history" =>
     /\ StrictlyAscending(list)
     /\ \A v \in Elems(list) : \A t \in TipVersions : v < t
     /\ ~dangerously => Elems(list) = (Returned \cup PriorVersions) \ TipVersions

\* Two tips have been superseded and are listed.
C8_Witness ==
  /\ HistorySafe
  /\ Len(list) >= 2
  /\ Elems(list) = (Returned \cup PriorVersions) \ TipVersions

(***************************************************************************)
(* C9.  History counter: get() returns the current tip record (None when   *)
(* there is none); get(k) returns None for every version k that no put has *)
(* archived, every k from the version of the tip upwards included; and no  *)
(* call of list() or get() changes a stored record.                        *)
(***************************************************************************)
\* The versions under which a put has stored an archive record: the archive
\* put is the last of the planned puts, so it is stored when put() returns.
ArchivedVersions ==
  {puts[p][2].Item[attribute_name].N : p \in {q \in Done : Len(puts[q]) = 2}}

C9_GetInv ==
  variant = "history" =>
     /\ get(NULL) = CounterRecord
     /\ \A k \in Versions :
          \/ get(N(k)) = None
          \/ /\ k \in ArchivedVersions
             /\ \A t \in TipVersions : k < t

C9_ReadStep == (List \/ Get) => UNCHANGED tables

\* C9: get() is the tip, get(k) is None unless k was archived and lies below
\* the tip, and the reads change no table.
C9_GetAndFrame == []C9_GetInv /\ [][C9_ReadStep]_vars

\* A reader asked for the version of the current tip, with older versions
\* archived, and got None.
C9_Witness ==
  /\ variant = "history"
  /\ list # << >>
  /\ CounterValue # NULL
  /\ reply = [get |-> None, version |-> CounterValue]

(***************************************************************************)
(* C10.  History counter whose tip exists without the counter attribute:   *)
(* no put returns initial_value; the put that commits a plan made from     *)
(* that tip returns initial_value + 1, and at most one put does; while its *)
(* record is the tip, the tip is the candidate merged with the key and     *)
(* version initial_value + 1, the history table holds exactly one record,  *)
(* the prior tip under version initial_value, and list() is                *)
(* [initial_value]; the prior tip is never archived a second time.         *)
(***************************************************************************)
PreVersioningTip == variant = "history" /\ initial_item = counter_table_key

\* The prior tip as it is archived.
ArchivedPriorTip == Merge(initial_item, (attribute_name :> N(initial_value)))

\* The callers that have returned from a plan made from the pre-versioning tip.
Adopters == {p \in Done : Len(puts[p]) = 2 /\ PlannedFrom(p) = NULL}

\* C10: the put on a tip without the counter attribute returns
\* initial_value + 1 and archives the prior tip once, under initial_value.
C10_PreVersioningTip ==
  PreVersioningTip =>
    /\ \A p \in Done : next_counter[p] > initial_value
    /\ Cardinality(Adopters) <= 1
    /\ \A p \in Adopters :
         /\ next_counter[p] = initial_value + 1
         /\ get(N(initial_value)) = ArchivedPriorTip
         /\ CounterValue = N(initial_value + 1) =>
              /\ CounterRecord =
                   Merge(Merge(item[p], counter_table_key),
                         (attribute_name :> N(initial_value + 1)))
              /\ tables[table_name] = {ArchivedPriorTip}
              /\ list = <<initial_value>>
    /\ Cardinality({i \in tables[table_name] : payload_name \notin DOMAIN i}) <= 1

\* Two puts planned from the same pre-versioning tip; one has returned, the
\* other is about to commit its plan, which would archive the tip again.
C10_Witness ==
  /\ PreVersioningTip
  /\ list = <<initial_value>>
  /\ \E p \in Adopters : \E q \in Procs \ {p} :
       /\ pc[q] = "commit"
       /\ PlannedFrom(q) = NULL
       /\ puts[q][2].Item = ArchivedPriorTip

(***************************************************************************)
(* C11.  Dangerous mode: each planned put is issued as a put_item of its   *)
(* own, without its condition, so that no such request is rejected for the *)
(* item it finds.                                                          *)
(*                                                                         *)
(* As stated this fails: the loop hands each put, with its planned         *)
(* ConditionExpression, to put_item.  What holds: each planned put is a    *)
(* request of its own, in the planned order, with its planned condition;   *)
(* when the condition holds the item is stored and the loop goes on, when  *)
(* it fails nothing is stored by that request, what the earlier requests   *)
(* stored stays, and ConditionalCheckFailedException reaches the caller    *)
(* without a retry.                                                        *)
(***************************************************************************)
\* The request the dangerous loop of p issues next.
Pending(p) == puts[p][sent[p] + 1]

\* The caller p has got the answer to a put_item request in this step.
Answered(p) == pc[p] = "commit" /\ (pc'[p] # "commit" \/ sent'[p] # sent[p])

\* C11 as stated: no put_item of the dangerous loop is rejected for a failed
\* condition.
C11_NeverRejected ==
  dangerously => \A p \in Procs : raised[p] # "ConditionalCheckFailedException"

C11_RequestStep ==
  dangerously =>
    \A p \in Procs :
      Answered(p) =>
        \/ /\ ConditionHolds(Pending(p))
           /\ tables' = StorePut(tables, Pending(p))
           /\ sent'[p] = sent[p] + 1
           /\ pc'[p] = IF sent'[p] = Len(puts[p]) THEN "done" ELSE "commit"
           /\ raised'[p] = ""
        \/ /\ ~ConditionHolds(Pending(p))
           /\ tables' = tables
           /\ sent'[p] = sent[p]
           /\ pc'[p] = "failed"
           /\ raised'[p] = "ConditionalCheckFailedException"
        \/ /\ tables' = tables
           /\ sent'[p] = sent[p]
           /\ pc'[p] = "failed"
           /\ raised'[p] = "ClientError"

\* C11 as amended: every request of the dangerous loop carries its planned
\* condition; it is stored alone when the condition holds and rejected, with
\* the exception raised and nothing retried, when it does not.
C11_IndependentConditionedPuts ==
  /\ [][C11_RequestStep]_vars
  /\ [][dangerously => \A p \in Procs : pc[p] = "failed" => pc'[p] = "failed"]_vars

\* The second request of a caller was rejected after its first was stored.
C11_Witness ==
  /\ dangerously
  /\ \E p \in Procs :
       /\ raised[p] = "ConditionalCheckFailedException"
       /\ sent[p] = 1
       /\ puts[p][1].Item \in tables[counter_table_name]

(***************************************************************************)
(* C12.  Dangerous mode, plain counter, fresh counter, two or more         *)
(* concurrent puts: some interleaving ends with a value assigned twice or  *)
(* with a conditional-check failure raised to a caller, and such a failure *)
(* is not retried.  The interleaving is the witness (two callers plan the  *)
(* same value, one returns it, the other is rejected); the property is     *)
(* that a rejected request ends its put with the exception raised, and     *)
(* that the caller then takes no further step.                             *)
(***************************************************************************)
PlainDangerous == variant = "plain" /\ dangerously

C12_Step ==
  PlainDangerous =>
    \A p \in Procs :
      /\ (Answered(p) /\ ~ConditionHolds(Pending(p))) =>
            /\ pc'[p] = "failed"
            /\ raised'[p] \in {"ConditionalCheckFailedException", "ClientError"}
            /\ puts'[p] = puts[p]
      /\ raised[p] = "ConditionalCheckFailedException" =>
            /\ pc[p] = "failed"
            /\ <<pc[p], puts[p], sent[p], next_counter[p], raised[p]>>' =
                 <<pc[p], puts[p], sent[p], next_counter[p], raised[p]>>

\* C12: in the dangerous mode on a plain counter a rejected request ends its
\* put with the failure raised, and a put that raised it never runs again.
C12_FailureNotRetried == [][C12_Step]_vars

\* Two callers on a fresh counter planned the same value; one has returned it,
\* the other was rejected at its first request and has stopped.
C12_Witness ==
  /\ PlainDangerous /\ initial_item = None
  /\ Cardinality(Called) = 2
  /\ \E p, q \in Procs :
       /\ pc[q] = "done"
       /\ pc[p] = "failed" /\ raised[p] = "ConditionalCheckFailedException"
       /\ next_counter[p] = next_counter[q]
       /\ next_counter[p] = initial_value
       /\ sent[p] = 0

(***************************************************************************)
(* C13.  Dangerous mode: a state is reachable in which a put has failed    *)
(* and the counter record stands at a value for which no target record was *)
(* written (or a target record was written for a value the counter never   *)
(* reached).  In safe mode no such state is reachable, whether a put has   *)
(* failed or not.  For the history counter the counter record is the tip   *)
(* and the second record is the archive of the tip it replaced.            *)
(***************************************************************************)
\* The callers that hold a plan of two puts.
Planned == {p \in Procs : Len(puts[p]) = 2}

\* A put has changed the counter record.
Advanced == CounterRecord # initial_item

\* Plain counter: the target record planned together with the counter value v
\* is stored.
WrittenFor(v) ==
  \E p \in Planned : next_counter[p] = v /\ puts[p][2].Item \in tables[table_name]

CounterWithoutTarget ==
  /\ variant = "plain"
  /\ Advanced
  /\ ~WrittenFor(CounterValue.N)

\* Plain counter: a target record stored under the value planned for it, which
\* the counter has not reached.
TargetWithoutCounter ==
  /\ variant = "plain"
  /\ \E p \in Planned :
       /\ puts[p][2].Item \in tables[table_name]
       /\ puts[p][2].Item[attribute_name] = N(next_counter[p])
       /\ (CounterValue = NULL \/ CounterValue.N < next_counter[p])

\* History counter: the tip is the one a put planned, the archive record the
\* same put planned is not stored.
TipWithoutArchive ==
  /\ variant = "history"
  /\ \E p \in Planned :
       /\ puts[p][1].Item = CounterRecord
       /\ puts[p][2].Item \notin tables[table_name]

Torn == CounterWithoutTarget \/ TargetWithoutCounter \/ TipWithoutArchive

\* C13: in safe mode the counter record and the record written with it are
\* never found one without the other.
C13_SafeNeverTorn == ~dangerously => ~Torn

\* Dangerous mode, plain counter: a put has failed between its two requests,
\* every other caller has ended or not begun, and the counter stands at a
\* value without target record.
C13_Witness ==
  /\ dangerously
  /\ CounterWithoutTarget
  /\ \A q \in Procs : pc[q] \in {"idle", "done", "failed"}
  /\ \E p \in Procs :
       /\ pc[p] = "failed" /\ sent[p] = 1
       /\ CounterValue = N(next_counter[p])

(***************************************************************************)
(* C14.  Dangerous mode, plain counter, fresh counter, puts called one     *)
(* after the other: every put succeeds, the p-th returns                   *)
(* initial_value + p - 1, and the records left are those the same calls    *)
(* leave in safe mode.  The records are stated as a function of the calls  *)
(* alone, and the statement is checked in both modes.                      *)
(***************************************************************************)
\* The records that the puts which have returned leave behind.
SerialCounterTable ==
  IF Done = {} THEN {}
  ELSE {Merge(counter_table_key,
              (attribute_name :> N(initial_value + Cardinality(Done) - 1)))}

\* The target records, merged as the planner merges them.
SerialTargetTable ==
  {Merge((attribute_name :> N(initial_value + p - 1)), item[p]) : p \in Done}

\* What C14 says of sequential calls whose candidates are in `candidates`.
C14_Holds(candidates) ==
  (\A p \in Called : item[p] \in candidates) =>
     /\ \A p \in Procs : pc[p] # "failed"
     /\ \A p \in Done : next_counter[p] = initial_value + p - 1
     /\ (Called = Done) =>
           /\ tables[counter_table_name] = SerialCounterTable
           /\ tables[table_name] = SerialTargetTable

\* C14: sequential puts all succeed, return consecutive values in call order
\* and leave the same records in either mode.
C14_SerialPuts == C14_Holds(Candidates)

\* The same for the candidates that carry no field named like the counter.
C14_SerialPutsWithoutCounterField ==
  C14_Holds({c \in Candidates : attribute_name \notin DOMAIN c})

(***************************************************************************)
(* C15.  Safe mode, history counter: the history table holds exactly one   *)
(* record for every tip that has been superseded and none for the current  *)
(* tip; the record at version k is the content the tip had while its       *)
(* version was k (for a tip that predates versioning, its content with     *)
(* version initial_value), and no step changes or removes a record of the  *)
(* history table.  The first put on a counter without tip archives         *)
(* nothing.                                                                *)
(***************************************************************************)
\* The versions of the tips that have been superseded.
Superseded == (Returned \cup PriorVersions) \ TipVersions

\* The content the tip had while its version was k: what the put that
\* returned k stored as the tip, or the tip the fixture left.
TipAt(k) ==
  IF k \in Returned
    THEN LET p == CHOOSE q \in Done : next_counter[q] = k
         IN  Merge(Merge(item[p], counter_table_key), (attribute_name :> N(k)))
    ELSE Merge(initial_item, (attribute_name :> N(k)))

C15_Inv ==
  HistorySafe =>
    /\ tables[table_name] = {TipAt(k) : k \in Superseded}
    /\ Cardinality(tables[table_name]) = Cardinality(Superseded)
    /\ \A k \in TipVersions : get(N(k)) = None
    /\ (initial_item = None /\ Cardinality(Done) <= 1) => list = << >>

C15_Step == HistorySafe => tables[table_name] \subseteq tables'[table_name]

\* C15: in safe mode the history table is exactly the superseded tips, each
\* once and with the content it had as tip, and its records are never changed.
C15_SupersededTipsPreserved == []C15_Inv /\ [][C15_Step]_vars

\* Every caller has returned from a tip that predates versioning: the prior
\* tip and all tips but the last are archived.
C15_Witness ==
  /\ HistorySafe
  /\ initial_item = counter_table_key
  /\ Done = Procs
  /\ Cardinality(tables[table_name]) = NumProcs
  /\ Merge(initial_item, (attribute_name :> N(initial_value))) \in tables[table_name]

(***************************************************************************)
(* C16.  Safe mode, plain counter, both tables empty at the start: in      *)
(* every reachable state the counter record is absent exactly when the     *)
(* target table is empty; otherwise the counter holds c, the keys of the   *)
(* target table are exactly initial_value, ..., c, one record each, and    *)
(* the record under v is the candidate of the put that returned v, merged  *)
(* with {attribute_name: v}.                                               *)
(***************************************************************************)
\* The keys of the target table.
TargetKeys == {r[attribute_name].N : r \in tables[table_name]}

\* What C16 says when the candidates of the puts called are in `candidates`.
C16_Holds(candidates) ==
  (/\ PlainSafe /\ initial_item = None
   /\ \A p \in Called : item[p] \in candidates) =>
     /\ CounterRecord = None <=> tables[table_name] = {}
     /\ CounterRecord # None =>
          /\ CounterValue # NULL
          /\ TargetKeys = initial_value .. CounterValue.N
          /\ Cardinality(tables[table_name]) = Cardinality(TargetKeys)
          /\ \A r \in tables[table_name] :
               \E p \in Done :
                 /\ next_counter[p] = r[attribute_name].N
                 /\ r = Merge(item[p], (attribute_name :> N(next_counter[p])))

\* C16: the target table holds one record for each value from initial_value
\* to the counter, the record of the put that returned the value.
C16_CounterAndTargets == C16_Holds(Candidates)

\* The same for the candidates that carry no field named like the counter.
C16_CounterAndTargetsWithoutCounterField ==
  C16_Holds({c \in Candidates : attribute_name \notin DOMAIN c})

(***************************************************************************)
(* C17.  Safe mode, fresh counter, NumProcs concurrent puts, no store      *)
(* errors, fair scheduling: a commit attempt is cancelled only if another  *)
(* put has committed since that attempt's read (the counter record is no   *)
(* longer the one the plan was made from); hence no put makes more than    *)
(* NumProcs commit attempts, and every put eventually returns.             *)
(***************************************************************************)
\* The candidates that carry no field named like the counter attribute.
WithoutCounterField == {c \in Candidates : attribute_name \notin DOMAIN c}

\* The puts called so far have candidates in `candidates`.
CalledWith(candidates) == \A p \in Called : item[p] \in candidates

C17_Step(candidates) ==
  CalledWith(candidates) =>
    \A p \in Procs : (pc[p] = "commit" /\ pc'[p] = "next") => Stale(p)

C17_Bound(candidates) ==
  CalledWith(candidates) => \A p \in Procs : attempts[p] <= NumProcs

C17_Ended(candidates) == ~CalledWith(candidates) \/ Done = Procs

\* C17: a commit attempt is cancelled only after another put's commit, every
\* put makes at most NumProcs attempts, and every put eventually returns.
C17_EveryPutReturns ==
  /\ [][C17_Step(Candidates)]_vars
  /\ []C17_Bound(Candidates)
  /\ <>C17_Ended(Candidates)

\* The same for the candidates that carry no field named like the counter.
C17_EveryPutReturnsWithoutCounterField ==
  /\ [][C17_Step(WithoutCounterField)]_vars
  /\ []C17_Bound(WithoutCounterField)
  /\ <>C17_Ended(WithoutCounterField)

(***************************************************************************)
(* C18.  Safe mode, one put and no other writer: the put ends, with a      *)
(* value returned or an exception raised, whatever the store held when it  *)
(* was called; in particular when the target table already holds a record  *)
(* under the next counter value (plain counter), or the history table a    *)
(* record under the version of the tip (history counter).                  *)
(***************************************************************************)
\* Records a store may hold from earlier use: a target record under the next
\* counter value or the one after it; a history record under the version of
\* the tip or under the next version.
StaleRecords ==
  IF variant = "plain"
    THEN {[widgetID |-> N(v), widgetName |-> S("old")] :
            v \in {FirstValue, FirstValue + 1}}
    ELSE {[widgetID |-> N(1), version |-> N(v), name |-> S("old")] :
            v \in PriorVersions \cup {FirstValue}}

\* The store in any such state, nobody in put().
InitSingle ==
  /\ variant \in {"plain", "history"}
  /\ dangerously = FALSE
  /\ initial_value \in InitialValues
  /\ initial_item \in InitialItems(variant)
  /\ \E stale \in SUBSET StaleRecords :
       tables = [t \in TableNames |->
                   IF t = counter_table_name /\ initial_item # None
                     THEN {initial_item}
                     ELSE IF t = table_name THEN stale ELSE {}]
  /\ pc = [p \in Procs |-> "idle"]
  /\ item = [p \in Procs |-> None]
  /\ puts = [p \in Procs |-> << >>]
  /\ next_counter = [p \in Procs |-> 0]
  /\ sent = [p \in Procs |-> 0]
  /\ raised = [p \in Procs |-> ""]
  /\ reply = None
  /\ attempts = [p \in Procs |-> 0]

\* The one caller; the store answers on the merits or with an error.
NextSingle ==
  \/ Call(1) /\ UNCHANGED attempts
  \/ CallNext(1) /\ UNCHANGED attempts
  \/ TransactWrite(1) /\ UNCHANGED attempts
  \/ TransactWriteError(1) /\ UNCHANGED attempts

SpecSingle == InitSingle /\ [][NextSingle]_vars /\ WF_vars(NextSingle)

Ended(p) == pc[p] \in {"done", "failed"}

\* The plan of p is made from the current counter record, and the record its
\* second put would insert is already there.
BlockedByRecord(p) ==
  /\ pc[p] = "commit"
  /\ ConditionHolds(puts[p][1])
  /\ Len(puts[p]) = 2 /\ ~ConditionHolds(puts[p][2])

\* C18: a single put in safe mode ends, whatever the store held.
C18_SinglePutEnds == <>Ended(1)

\* The same unless the record the put is to insert is already there.
C18_SinglePutEndsUnlessBlocked == <>(Ended(1) \/ BlockedByRecord(1))

(***************************************************************************)
(* C19.  Both variants: the record a successful put writes (the target     *)
(* record of the plain counter, the new tip of the history counter)        *)
(* carries the value the put returns as its counter attribute, whatever    *)
(* the candidate, a candidate with a field of that name included.          *)
(***************************************************************************)
\* The record the put of p writes for the value it returns.
Written(p) == IF variant = "plain" THEN puts[p][2].Item ELSE puts[p][1].Item

C19_Holds(p) ==
  pc[p] = "done" => Attr(Written(p), attribute_name) = N(next_counter[p])

\* C19: the record written by a put that returned carries the value returned.
C19_WrittenCounterIsReturned == \A p \in Procs : C19_Holds(p)

\* The same for the history counter alone.
C19_TipCarriesVersionReturned ==
  variant = "history" => \A p \in Procs : C19_Holds(p)

(***************************************************************************)
(* C20.  Dangerous mode, plain counter, fresh counter: whatever the        *)
(* interleaving, no two puts that return have returned the same value; the *)
(* counter put of each is still a compare-and-swap, and only one of the    *)
(* puts planned from the same counter passes it.                           *)
(***************************************************************************)
C20_NoDuplicateReturned ==
  (PlainDangerous /\ initial_item = None) =>
     /\ \A p, q \in Done : p # q => next_counter[p] # next_counter[q]
     /\ \A p \in Planned :
          IF next_counter[p] = initial_value
            THEN puts[p][1].ConditionExpression = "attribute_not_exists(#counter)"
            ELSE /\ puts[p][1].ConditionExpression = "#counter = :counter"
                 /\ PlannedFrom(p) = N(next_counter[p] - 1)

\* Three callers planned the same value; one returned it, one was rejected,
\* and the third, planning again later, returned the next value.
C20_Witness ==
  /\ PlainDangerous /\ initial_item = None
  /\ \E p, q, r \in Procs :
       /\ pc[p] = "done" /\ next_counter[p] = initial_value
       /\ pc[q] = "failed" /\ next_counter[q] = initial_value
       /\ raised[q] = "ConditionalCheckFailedException"
       /\ pc[r] = "done" /\ next_counter[r] = initial_value + 1

====
